---- MODULE Spec2Model ----
(***************************************************************************)
(* Model of src/training/trainer.py: the Trainer that orchestrates         *)
(* trust-weighted knowledge distillation over a fixed collection of        *)
(* clients.  One action per step of Trainer.__init__, Trainer.train,       *)
(* Trainer.__global_epoch and Trainer.__local_epoch.  The clients are      *)
(* external: each one is a deterministic learner with a hidden state,      *)
(* set by the experiment seed chosen in Init; any capability call may      *)
(* raise.                                                                  *)
(***************************************************************************)
EXTENDS Integers, Sequences, FiniteSets, TLC

(* ------------------------------ bounds -------------------------------- *)
NumClients == 2
MaxGlobalEpochs == 3
MaxPretrain == 2
MaxLocalEpochs == 2
ClientStates == 3
NumSeeds == 9
RefSize == 3
NumClasses == 2
AccDen == 2

ClientPos == 1..NumClients
MetricNames == {"acc", "bacc", "unknown"}

(* None, the empty list and "no value" are all the empty sequence. *)
Null == <<>>

(* ------------------------- exact arithmetic --------------------------- *)
Abs(x) == IF x < 0 THEN -x ELSE x

GCD[a \in Nat, b \in Nat] == IF b = 0 THEN a ELSE GCD[b, a % b]

(* A score is an exact fraction <<numerator, denominator>> in lowest terms. *)
Fractions == Int \X Nat

Rat[n \in Int, d \in Nat] ==
    LET g == GCD[Abs(n), d]
    IN  IF n = 0 THEN <<0, 1>> ELSE <<n \div g, d \div g>>

RatAdd[a \in Fractions, b \in Fractions] ==
    Rat[a[1] * b[2] + b[1] * a[2], a[2] * b[2]]

RatSub[a \in Fractions, b \in Fractions] ==
    Rat[a[1] * b[2] - b[1] * a[2], a[2] * b[2]]

RatDivInt[a \in Fractions, k \in Nat] == Rat[a[1], a[2] * k]

Zero == <<0, 1>>
NaN == <<0, 0>>

RatSum[xs \in Seq(Fractions)] ==
    IF Len(xs) = 0 THEN Zero ELSE RatAdd[xs[1], RatSum[Tail(xs)]]

(* np.mean of a list of scalars: the sum divided by the length. *)
NpMean(xs) == IF Len(xs) = 0 THEN NaN ELSE RatDivInt[RatSum[xs], Len(xs)]

(* Python list indexing: a negative index counts from the end. *)
PyInRange(s, i) == (i >= 0 /\ i < Len(s)) \/ (i < 0 /\ -i <= Len(s))
PyIndex(s, i) == IF i >= 0 THEN s[i + 1] ELSE s[Len(s) + i + 1]

(* torch.argmax(t, dim=1): per row, the index of the first maximal value. *)
RowArgMax(row) ==
    CHOOSE k \in 1..Len(row) :
        /\ \A j \in 1..Len(row) : row[j] <= row[k]
        /\ \A j \in 1..(k - 1) : row[j] < row[k]

ArgMax(t) == [n \in 1..Len(t) |-> RowArgMax(t[n]) - 1]

(* ------------------------- scoring functions -------------------------- *)
Matches(y, p) == Cardinality({n \in 1..Len(y) : y[n] = p[n]})

accuracy_score(y, p) == Rat[Matches(y, p), Len(y)]

ClassesOf(y) == {y[n] : n \in 1..Len(y)}
Recall(y, p, c) ==
    Rat[Cardinality({n \in 1..Len(y) : y[n] = c /\ p[n] = c}),
        Cardinality({n \in 1..Len(y) : y[n] = c})]

RECURSIVE RecallSum(_, _, _)
RecallSum(y, p, cs) ==
    IF cs = {} THEN Zero
    ELSE LET c == CHOOSE x \in cs : TRUE
         IN  RatAdd[Recall(y, p, c), RecallSum(y, p, cs \ {c})]

balanced_accuracy_score(y, p) ==
    RatDivInt[RecallSum(y, p, ClassesOf(y)), Cardinality(ClassesOf(y))]

(* self.metric(ref_y, ref_pred) for the function bound at construction. *)
ApplyMetric(m, y, p) ==
    IF m = "accuracy_score" THEN accuracy_score(y, p)
    ELSE balanced_accuracy_score(y, p)

(* ------------------- the clients (external learners) ------------------ *)
RefLabels == [n \in 1..RefSize |-> n % NumClasses]

(* The class a client in hidden state s predicts for reference sample n:   *)
(* the first (s + c) mod (RefSize + 1) samples are predicted correctly.    *)
ClientPred(c, s, n) ==
    IF n <= (s + c) % (RefSize + 1) THEN RefLabels[n]
    ELSE (RefLabels[n] + 1) % NumClasses

SoftDecisionOf(c, s) ==
    [n \in 1..RefSize |->
        [k \in 1..NumClasses |-> IF k - 1 = ClientPred(c, s, n) THEN 2 + s ELSE 1]]

(* The hidden state client c starts in under experiment seed k: the c-th   *)
(* digit of k written in base ClientStates.                                *)
SeedState(k, c) == (k \div (ClientStates ^ (c - 1))) % ClientStates

(* client.train(ref_loader, target): changes the hidden state. *)
ClientTrain(s, target) ==
    (s + 1 + (IF target = Null THEN 0 ELSE 1)) % ClientStates

(* client.test(metric, mode): a score in [0, 1]. *)
ClientTest(c, s, mode) ==
    Rat[(s + c + (IF mode = "train" THEN 1 ELSE 0)) % (AccDen + 1), AccDen]

(* client.infer_on_refdata(ref_loader) -> (soft_decision, ref_y). *)
ClientInfer(c, s) == [soft_decision |-> SoftDecisionOf(c, s), ref_y |-> RefLabels]

RECURSIVE TensorSum(_)
TensorSum(sds) ==
    IF Len(sds) = 1 THEN sds[1]
    ELSE LET r == TensorSum(Tail(sds))
         IN  [n \in 1..RefSize |-> [k \in 1..NumClasses |-> sds[1][n][k] + r[n][k]]]

(* client.calculate_soft_decision_target(epoch, soft_decisions)            *)
(* -> (target, trust_weight): the target is the ensemble of the peers'     *)
(* soft decisions, the trust weight the number of peers agreeing with the  *)
(* client's own current prediction.                                        *)
ClientCalc(c, s, sds) ==
    [target |-> IF Len(sds) = 0 THEN Null ELSE TensorSum(sds),
     trust_weight |->
        Cardinality({j \in 1..Len(sds) : ArgMax(sds[j]) = ArgMax(SoftDecisionOf(c, s))})]

(* ------------------------------- state -------------------------------- *)
VARIABLES
    pc,                   \* position of the program
    metric_name,          \* constructor argument metric
    pretraining_rounds,   \* self.pretraining_rounds
    num_local_epochs,     \* self.num_local_epochs
    global_epochs,        \* argument of train()
    metric,               \* self.metric, the resolved scoring function
    soft_decisions,       \* self.soft_decisions
    train_accuracies,     \* self.train_accuracies
    test_accuracies,      \* self.test_accuracies
    ref_accuracies,       \* self.ref_accuracies
    trust_weights_round,  \* self.trust_weights_round (dict keyed by epoch)
    current_global_epoch, \* loop variable of train()
    idx,                  \* position in self.clients.items()
    current_local_epoch,  \* loop variable of the local-epoch loop
    locals,               \* soft_decision_target, soft_decision, ref_y
    prev_test_accuracy,
    prev_ref_accuracy,
    client_state,         \* hidden state of every client
    calls,                \* the client capability calls made so far
    reports,              \* records emitted to the reporting sink
    result                \* return value of train()

vars == <<pc, metric_name, pretraining_rounds, num_local_epochs, global_epochs,
          metric, soft_decisions, train_accuracies, test_accuracies,
          ref_accuracies, trust_weights_round, current_global_epoch, idx,
          current_local_epoch, locals, prev_test_accuracy, prev_ref_accuracy,
          client_state, calls, reports, result>>

config == <<metric_name, pretraining_rounds, num_local_epochs, global_epochs>>
histories == <<soft_decisions, train_accuracies, test_accuracies,
               ref_accuracies, trust_weights_round>>
means == <<prev_test_accuracy, prev_ref_accuracy, reports>>

NoLocals == [soft_decision_target |-> Null, soft_decision |-> Null, ref_y |-> Null]

Init ==
    /\ pc = "new"
    /\ metric_name \in MetricNames
    /\ pretraining_rounds \in 0..MaxPretrain
    /\ num_local_epochs \in 1..MaxLocalEpochs
    /\ global_epochs \in 1..MaxGlobalEpochs
    /\ metric = "unset"
    /\ soft_decisions = <<>>
    /\ train_accuracies = <<>>
    /\ test_accuracies = <<>>
    /\ ref_accuracies = <<>>
    /\ trust_weights_round = <<>>
    /\ current_global_epoch = 0
    /\ idx = 1
    /\ current_local_epoch = 0
    /\ locals = NoLocals
    /\ prev_test_accuracy = Zero
    /\ prev_ref_accuracy = Zero
    /\ \E k \in 0..(NumSeeds - 1) :
          client_state = [c \in ClientPos |-> SeedState(k, c)]
    /\ calls = <<>>
    /\ reports = <<>>
    /\ result = Null

(* One entry of the call log. *)
Call(kind, c, arg, ret, ok) ==
    [kind |-> kind, client |-> c, epoch |-> current_global_epoch,
     arg |-> arg, ret |-> ret, ok |-> ok]

(* A failure that is caught and skipped instead of propagating. *)
Raise_Swallowed == pc' = "round_end"

(* An exception leaves the frame: nothing is returned, nothing is undone. *)
Raise == pc' = "raised"

(* ---------------------------- Trainer.__init__ ------------------------ *)
(* An unknown identifier falling back to a default scoring function. *)
ResolveMetric_Default(m) ==
    IF m = "bacc" THEN "balanced_accuracy_score" ELSE "accuracy_score"

ResolveMetric(m) ==
    IF m = "acc" THEN "accuracy_score"
    ELSE IF m = "bacc" THEN "balanced_accuracy_score"
    ELSE "raise"

Construct ==
    /\ pc = "new"
    /\ IF ResolveMetric(metric_name) = "raise"
       THEN /\ pc' = "ctor_error"
            /\ UNCHANGED metric
       ELSE /\ pc' = "constructed"
            /\ metric' = ResolveMetric(metric_name)
    /\ UNCHANGED <<config, histories, current_global_epoch, idx,
                   current_local_epoch, locals, means, client_state, calls, result>>

(* ----------------------------- Trainer.train -------------------------- *)
EmptyWeights == [stacked |-> FALSE, rows |-> <<>>]

(* d[k] = v on a dict: the key is added, or its value replaced. *)
DictSet(d, k, v) == [x \in (DOMAIN d) \cup {k} |-> IF x = k THEN v ELSE d[x]]

(* A slot that is replaced by the new value instead of extended. *)
AppendAt_Overwrites(h, i, v) ==
    LET j == IF i >= 0 THEN i + 1 ELSE Len(h) + i + 1
    IN  [h EXCEPT ![j] = <<v>>]

(* list[i].append(v), with Python indexing. *)
AppendAt(h, i, v) ==
    LET j == IF i >= 0 THEN i + 1 ELSE Len(h) + i + 1
    IN  [h EXCEPT ![j] = Append(@, v)]

TrainEnter ==
    /\ pc = "constructed"
    /\ pc' = "round_start"
    /\ current_global_epoch' = 0
    /\ prev_test_accuracy' = Zero
    /\ prev_ref_accuracy' = Zero
    /\ UNCHANGED <<config, metric, histories, idx, current_local_epoch, locals,
                   client_state, calls, reports, result>>

(* A loop that stops one round early. *)
MoreRounds_OffByOne == current_global_epoch < global_epochs - 1

(* for current_global_epoch in range(global_epochs) *)
MoreRounds == current_global_epoch < global_epochs

(* An iteration that starts from the other end in odd rounds. *)
FirstClient_Alternating == IF current_global_epoch % 2 = 1 THEN NumClients ELSE 1

(* for idx, client in self.clients.items(): the first position. *)
FirstClient == 1

RoundStart ==
    /\ pc = "round_start"
    /\ MoreRounds
    /\ trust_weights_round' = DictSet(trust_weights_round, current_global_epoch, EmptyWeights)
    /\ soft_decisions' = Append(soft_decisions, <<>>)
    /\ train_accuracies' = Append(train_accuracies, <<>>)
    /\ test_accuracies' = Append(test_accuracies, <<>>)
    /\ ref_accuracies' = Append(ref_accuracies, <<>>)
    /\ idx' = FirstClient
    /\ pc' = "gate"
    /\ UNCHANGED <<config, metric, current_global_epoch, current_local_epoch,
                   locals, means, client_state, calls, result>>

(* A consolidation that stacks whatever the slot holds, even nothing. *)
Consolidate_Always(w) == [stacked |-> TRUE, rows |-> w.rows]

(* torch.stack of a non-empty list of weights; an empty list is left as is. *)
Consolidate(w) ==
    IF Len(w.rows) > 0 THEN [stacked |-> TRUE, rows |-> w.rows] ELSE w

(* A round summary that adds the scores up without dividing. *)
RoundMean_NoDivide(h, e) == RatSum[PyIndex(h, e)]

(* np.mean(history[current_global_epoch]) *)
RoundMean(h, e) == NpMean(PyIndex(h, e))

(* A baseline that is the carried value even in round 0. *)
Baseline_Carried(prev, cur, e) == prev

(* The baseline the reported delta is taken against. *)
Baseline(prev, cur, e) == IF e = 0 THEN cur ELSE prev

RoundEnd ==
    /\ pc = "round_end"
    /\ LET e == current_global_epoch
           test_accuracy == RoundMean(test_accuracies, e)
           ref_accuracy == RoundMean(ref_accuracies, e)
       IN  /\ trust_weights_round' =
                 [trust_weights_round EXCEPT ![e] = Consolidate(@)]
           /\ reports' = Append(reports,
                 [global_epoch |-> e,
                  global_test_accuracy |-> test_accuracy,
                  test_delta |-> RatSub[test_accuracy,
                                        Baseline(prev_test_accuracy, test_accuracy, e)],
                  global_ref_accuracy |-> ref_accuracy,
                  ref_delta |-> RatSub[ref_accuracy,
                                       Baseline(prev_ref_accuracy, ref_accuracy, e)],
                  train_accuracy |-> PyIndex(train_accuracies, e),
                  test_accuracy |-> PyIndex(test_accuracies, e),
                  ref_accuracy |-> PyIndex(ref_accuracies, e)])
           /\ prev_test_accuracy' = test_accuracy
           /\ prev_ref_accuracy' = ref_accuracy
    /\ current_global_epoch' = current_global_epoch + 1
    /\ pc' = "round_start"
    /\ UNCHANGED <<config, metric, soft_decisions, train_accuracies,
                   test_accuracies, ref_accuracies, idx, current_local_epoch,
                   locals, client_state, calls, result>>

Return ==
    /\ pc = "round_start"
    /\ ~MoreRounds
    /\ result' = <<trust_weights_round, test_accuracies, ref_accuracies>>
    /\ pc' = "returned"
    /\ UNCHANGED <<config, metric, histories, current_global_epoch, idx,
                   current_local_epoch, locals, means, client_state, calls>>

(* ------------------------- Trainer.__global_epoch --------------------- *)
(* A phase gate that opens one round early. *)
LocalOnly_OffByOne(e) == e < pretraining_rounds - 1

(* The phase gate: local-only while the round is a pretraining round. *)
LocalOnly(e) == e < pretraining_rounds

(* A lookback that reads the entry of the round in progress. *)
Lookback_Current(e) == e

(* The index of the soft-decision entry handed to the client in round e. *)
Lookback(e) == e - 1

PhaseGate ==
    /\ pc = "gate"
    /\ IF LocalOnly(current_global_epoch)
       THEN /\ locals' = [NoLocals EXCEPT !.soft_decision_target = Null]
            /\ current_local_epoch' = 0
            /\ pc' = "local"
            /\ UNCHANGED <<calls, trust_weights_round>>
       ELSE IF ~PyInRange(soft_decisions, Lookback(current_global_epoch))
       THEN /\ Raise
            /\ UNCHANGED <<locals, current_local_epoch, calls, trust_weights_round>>
       ELSE LET sds == PyIndex(soft_decisions, Lookback(current_global_epoch))
                r == ClientCalc(idx, client_state[idx], sds)
            IN  \E ok \in BOOLEAN :
                  IF ok
                  THEN /\ calls' = Append(calls, Call("calculate_soft_decision_target",
                                                      idx, sds, r, TRUE))
                       /\ trust_weights_round' =
                             [trust_weights_round EXCEPT
                                 ![current_global_epoch].rows = Append(@, r.trust_weight)]
                       /\ locals' = [NoLocals EXCEPT !.soft_decision_target = r.target]
                       /\ current_local_epoch' = 0
                       /\ pc' = "local"
                  ELSE /\ calls' = Append(calls, Call("calculate_soft_decision_target",
                                                      idx, sds, Null, FALSE))
                       /\ Raise
                       /\ UNCHANGED <<locals, current_local_epoch, trust_weights_round>>
    /\ UNCHANGED <<config, metric, soft_decisions, train_accuracies,
                   test_accuracies, ref_accuracies, current_global_epoch, idx,
                   means, client_state, result>>

(* A local-epoch loop that runs one pass too many. *)
MoreLocalEpochs_OffByOne == current_local_epoch <= num_local_epochs

(* for current_local_epoch in range(num_local_epochs) *)
MoreLocalEpochs == current_local_epoch < num_local_epochs

(* One pass of the local-epoch loop: __local_epoch(client, target). *)
LocalEpoch ==
    /\ pc = "local"
    /\ MoreLocalEpochs
    /\ \E ok \in BOOLEAN :
         IF ok
         THEN /\ calls' = Append(calls, Call("train", idx,
                                             locals.soft_decision_target, Null, TRUE))
              /\ client_state' = [client_state EXCEPT
                                    ![idx] = ClientTrain(@, locals.soft_decision_target)]
              /\ current_local_epoch' = current_local_epoch + 1
              /\ pc' = "local"
         ELSE /\ calls' = Append(calls, Call("train", idx,
                                             locals.soft_decision_target, Null, FALSE))
              /\ Raise
              /\ UNCHANGED <<client_state, current_local_epoch>>
    /\ UNCHANGED <<config, metric, histories, current_global_epoch, idx, locals,
                   means, result>>

(* A train evaluation whose failure is recorded as a score of zero. *)
TestTrain_AppendsOnFailure ==
    /\ pc = "local"
    /\ ~MoreLocalEpochs
    /\ LET train_acc == ClientTest(idx, client_state[idx], "train")
       IN  \E ok \in BOOLEAN :
             IF ok
             THEN /\ calls' = Append(calls, Call("test", idx, "train", train_acc, TRUE))
                  /\ train_accuracies' =
                        AppendAt(train_accuracies, current_global_epoch, train_acc)
                  /\ pc' = "infer"
             ELSE /\ calls' = Append(calls, Call("test", idx, "train", Null, FALSE))
                  /\ train_accuracies' =
                        AppendAt(train_accuracies, current_global_epoch, Zero)
                  /\ Raise
    /\ UNCHANGED <<config, metric, soft_decisions, test_accuracies, ref_accuracies,
                   trust_weights_round, current_global_epoch, idx,
                   current_local_epoch, locals, means, client_state, result>>

TestTrain ==
    /\ pc = "local"
    /\ ~MoreLocalEpochs
    /\ LET train_acc == ClientTest(idx, client_state[idx], "train")
       IN  \E ok \in BOOLEAN :
             IF ok
             THEN /\ calls' = Append(calls, Call("test", idx, "train", train_acc, TRUE))
                  /\ train_accuracies' =
                        AppendAt(train_accuracies, current_global_epoch, train_acc)
                  /\ pc' = "infer"
             ELSE /\ calls' = Append(calls, Call("test", idx, "train", Null, FALSE))
                  /\ Raise
                  /\ UNCHANGED train_accuracies
    /\ UNCHANGED <<config, metric, soft_decisions, test_accuracies, ref_accuracies,
                   trust_weights_round, current_global_epoch, idx,
                   current_local_epoch, locals, means, client_state, result>>

InferOnRefdata ==
    /\ pc = "infer"
    /\ LET r == ClientInfer(idx, client_state[idx])
       IN  \E ok \in BOOLEAN :
             IF ok
             THEN /\ calls' = Append(calls, Call("infer_on_refdata", idx, Null, r, TRUE))
                  /\ soft_decisions' =
                        AppendAt(soft_decisions, current_global_epoch, r.soft_decision)
                  /\ locals' = [locals EXCEPT !.soft_decision = r.soft_decision,
                                              !.ref_y = r.ref_y]
                  /\ pc' = "test"
             ELSE /\ calls' = Append(calls, Call("infer_on_refdata", idx, Null, Null, FALSE))
                  /\ Raise
                  /\ UNCHANGED <<soft_decisions, locals>>
    /\ UNCHANGED <<config, metric, train_accuracies, test_accuracies, ref_accuracies,
                   trust_weights_round, current_global_epoch, idx,
                   current_local_epoch, means, client_state, result>>

(* A test evaluation that is only made in distillation rounds. *)
TestTest_DistillOnly ==
    /\ pc = "test"
    /\ LET test_acc == ClientTest(idx, client_state[idx], "test")
       IN  IF LocalOnly(current_global_epoch)
           THEN /\ pc' = "ref_acc"
                /\ UNCHANGED <<calls, test_accuracies>>
           ELSE /\ calls' = Append(calls, Call("test", idx, "test", test_acc, TRUE))
                /\ test_accuracies' =
                      AppendAt(test_accuracies, current_global_epoch, test_acc)
                /\ pc' = "ref_acc"
    /\ UNCHANGED <<config, metric, soft_decisions, train_accuracies, ref_accuracies,
                   trust_weights_round, current_global_epoch, idx,
                   current_local_epoch, locals, means, client_state, result>>

TestTest ==
    /\ pc = "test"
    /\ LET test_acc == ClientTest(idx, client_state[idx], "test")
       IN  \E ok \in BOOLEAN :
             IF ok
             THEN /\ calls' = Append(calls, Call("test", idx, "test", test_acc, TRUE))
                  /\ test_accuracies' =
                        AppendAt(test_accuracies, current_global_epoch, test_acc)
                  /\ pc' = "ref_acc"
             ELSE /\ calls' = Append(calls, Call("test", idx, "test", Null, FALSE))
                  /\ Raise
                  /\ UNCHANGED test_accuracies
    /\ UNCHANGED <<config, metric, soft_decisions, train_accuracies, ref_accuracies,
                   trust_weights_round, current_global_epoch, idx,
                   current_local_epoch, locals, means, client_state, result>>

(* A ref accuracy taken from the soft decision cached in the prior round. *)
RefAcc_Stale(e, i) ==
    IF e >= 1
    THEN ApplyMetric(metric, locals.ref_y, ArgMax(PyIndex(soft_decisions, e - 1)[i]))
    ELSE ApplyMetric(metric, locals.ref_y, ArgMax(locals.soft_decision))

(* ref_pred = argmax(soft_decision); ref_acc = self.metric(ref_y, ref_pred) *)
RefAcc(e, i) == ApplyMetric(metric, locals.ref_y, ArgMax(locals.soft_decision))

RefAccuracy ==
    /\ pc = "ref_acc"
    /\ ref_accuracies' =
          AppendAt(ref_accuracies, current_global_epoch, RefAcc(current_global_epoch, idx))
    /\ IF idx < NumClients
       THEN /\ idx' = idx + 1
            /\ pc' = "gate"
       ELSE /\ idx' = idx
            /\ pc' = "round_end"
    /\ UNCHANGED <<config, metric, soft_decisions, train_accuracies, test_accuracies,
                   trust_weights_round, current_global_epoch, current_local_epoch,
                   locals, means, client_state, calls, result>>

(* ---------------------------- specification --------------------------- *)
Next ==
    \/ Construct
    \/ TrainEnter
    \/ RoundStart
    \/ PhaseGate
    \/ LocalEpoch
    \/ TestTrain
    \/ InferOnRefdata
    \/ TestTest
    \/ RefAccuracy
    \/ RoundEnd
    \/ Return

Spec == Init /\ [][Next]_vars

(* The program is sequential and runs every step it can take. *)
FairSpec == Spec /\ WF_vars(Next)

(* ----------------------- train() called again ------------------------- *)
MaxTrainCalls == 2

(* The train() calls that have run at least their round 0 to its end. *)
TrainCallsDone ==
    Cardinality({k \in 1..Len(reports) : reports[k].global_epoch = 0})

(* train(global_epochs) is entered again on the same Trainer: the loop     *)
(* variable and the carried means start over, the histories are kept.      *)
TrainAgain ==
    /\ pc = "returned"
    /\ TrainCallsDone < MaxTrainCalls
    /\ pc' = "round_start"
    /\ current_global_epoch' = 0
    /\ prev_test_accuracy' = Zero
    /\ prev_ref_accuracy' = Zero
    /\ result' = Null
    /\ UNCHANGED <<config, metric, histories, idx, current_local_epoch, locals,
                   client_state, calls, reports>>

NextRepeat == Next \/ TrainAgain

SpecRepeat == Init /\ [][NextRepeat]_vars

(* ------------------------ reading the call log ------------------------ *)
calc == "calculate_soft_decision_target"

(* The calls of one kind made on client c in round e, in call order. *)
CallsOf(kind, e, c) ==
    LET Sel(r) == r.kind = kind /\ r.epoch = e /\ r.client = c
    IN  SelectSeq(calls, Sel)

(* The soft decisions the clients returned in round e, in call order. *)
ProducedIn(e) ==
    LET Sel(r) == r.kind = "infer_on_refdata" /\ r.epoch = e /\ r.ok
        got == SelectSeq(calls, Sel)
    IN  [j \in 1..Len(got) |-> got[j].ret.soft_decision]

(* The scores the clients returned to test(mode) in round e, in call order. *)
TestedIn(e, mode) ==
    LET Sel(r) == r.kind = "test" /\ r.epoch = e /\ r.ok /\ r.arg = mode
        got == SelectSeq(calls, Sel)
    IN  [j \in 1..Len(got) |-> got[j].ret]

(* The rounds whose end-of-round report has been emitted. *)
CompletedRounds == {reports[k].global_epoch : k \in 1..Len(reports)}

InRound == pc \in {"gate", "local", "infer", "test", "ref_acc", "round_end"}

(* ------------------------------- claims ------------------------------- *)

(* C1: every target computation of a round e >= pretraining_rounds is     *)
(* made once per client and is handed exactly the soft decisions all       *)
(* clients produced in round e - 1, one per client in client order.        *)
C1_OneRoundLookback ==
    /\ \A i \in 1..Len(calls) :
          calls[i].kind = calc =>
             /\ calls[i].epoch >= 1
             /\ Len(calls[i].arg) = NumClients
             /\ calls[i].arg = ProducedIn(calls[i].epoch - 1)
    /\ \A e \in CompletedRounds : \A c \in ClientPos :
          Len(CallsOf(calc, e, c)) = (IF e >= pretraining_rounds THEN 1 ELSE 0)

(* C2: with pretraining_rounds = 0 either construction is rejected or      *)
(* round 0 runs local-only: no target computation, every train target is   *)
(* None, and no soft-decision entry is read.                               *)
C2_RoundZeroLocalOnly ==
    pretraining_rounds = 0 =>
       \/ pc \in {"new", "ctor_error"}
       \/ \A i \in 1..Len(calls) :
             calls[i].epoch = 0 =>
                /\ calls[i].kind # calc
                /\ calls[i].kind = "train" => calls[i].arg = Null

(* C3: with pretraining_rounds >= 1, every train call of a round           *)
(* e < pretraining_rounds has target None and no target computation is     *)
(* made in such a round.                                                   *)
C3_PretrainingIsLocalOnly ==
    pretraining_rounds >= 1 =>
       \A i \in 1..Len(calls) :
          calls[i].epoch < pretraining_rounds =>
             /\ calls[i].kind # calc
             /\ calls[i].kind = "train" => calls[i].arg = Null

C3_Witness ==
    /\ pc = "returned"
    /\ pretraining_rounds >= 1
    /\ global_epochs > pretraining_rounds
    /\ \E i \in 1..Len(calls) : calls[i].kind = "train" /\ calls[i].epoch = 0
    /\ \E i \in 1..Len(calls) : calls[i].kind = calc

(* C4: after train() returns, the trust-weight entry of a round            *)
(* e < pretraining_rounds is the empty not-collected marker, and that of a *)
(* round e >= pretraining_rounds is one stack with exactly one weight per  *)
(* client, in client order.                                                *)
C4_TrustWeightHistory ==
    pc = "returned" =>
       \A e \in 0..(global_epochs - 1) :
          /\ e \in DOMAIN result[1]
          /\ IF e < pretraining_rounds
             THEN result[1][e] = EmptyWeights
             ELSE /\ result[1][e].stacked
                  /\ Len(result[1][e].rows) = NumClients
                  /\ \A c \in ClientPos :
                        /\ Len(CallsOf(calc, e, c)) = 1
                        /\ result[1][e].rows[c] = CallsOf(calc, e, c)[1].ret.trust_weight

C4_Witness ==
    /\ pc = "returned"
    /\ pretraining_rounds >= 1
    /\ global_epochs > pretraining_rounds
    /\ result[1][0] = EmptyWeights
    /\ result[1][global_epochs - 1].stacked

(* --------------------------- history shape ---------------------------- *)
IsPrefix(a, b) == Len(a) <= Len(b) /\ \A k \in 1..Len(a) : a[k] = b[k]

(* The number of rounds whose slots have been allocated. *)
RoundsStarted ==
    IF pc \in {"new", "ctor_error", "constructed"} THEN 0
    ELSE IF pc \in {"round_start", "returned"} THEN current_global_epoch
    ELSE current_global_epoch + 1

(* Slot e of a list history holds, at position k, the value client k's     *)
(* single successful call returned in round e.                             *)
SlotFromCalls(slot, kind, mode, e) ==
    /\ Len(slot) <= NumClients
    /\ e \in CompletedRounds => Len(slot) = NumClients
    /\ \A k \in 1..Len(slot) :
          LET Sel(r) == r.kind = kind /\ r.epoch = e /\ r.client = k /\ r.ok
                        /\ (kind = "test" => r.arg = mode)
              got == SelectSeq(calls, Sel)
          IN  /\ Len(got) = 1
              /\ slot[k] = (IF kind = "test" THEN got[1].ret ELSE got[1].ret.soft_decision)

ListHistoriesShape ==
    /\ Len(soft_decisions) = RoundsStarted
    /\ Len(train_accuracies) = RoundsStarted
    /\ Len(test_accuracies) = RoundsStarted
    /\ Len(ref_accuracies) = RoundsStarted
    /\ DOMAIN trust_weights_round = 0..(RoundsStarted - 1)
    /\ \A e \in 0..(RoundsStarted - 1) :
          /\ SlotFromCalls(soft_decisions[e + 1], "infer_on_refdata", "", e)
          /\ SlotFromCalls(train_accuracies[e + 1], "test", "train", e)
          /\ SlotFromCalls(test_accuracies[e + 1], "test", "test", e)
          /\ Len(ref_accuracies[e + 1]) <= NumClients
          /\ e \in CompletedRounds => Len(ref_accuracies[e + 1]) = NumClients
    /\ pc = "returned" =>
          /\ DOMAIN result[1] = 0..(global_epochs - 1)
          /\ Len(result[2]) = global_epochs
          /\ Len(result[3]) = global_epochs

(* One weight per client in every completed round, whatever the phase. *)
WeightsEveryRound ==
    \A e \in CompletedRounds : Len(trust_weights_round[e].rows) = NumClients

(* One weight per client in completed distillation rounds, none before. *)
WeightsByPhase ==
    \A e \in CompletedRounds :
       Len(trust_weights_round[e].rows) =
          (IF e >= pretraining_rounds THEN NumClients ELSE 0)

(* No slot and no element written so far is removed or changed by a step. *)
AppendOnlyStep ==
    /\ IsPrefix(train_accuracies, train_accuracies') \/
          /\ Len(train_accuracies') = Len(train_accuracies)
          /\ \A e \in 1..Len(train_accuracies) :
                IsPrefix(train_accuracies[e], train_accuracies'[e])
    /\ IsPrefix(test_accuracies, test_accuracies') \/
          /\ Len(test_accuracies') = Len(test_accuracies)
          /\ \A e \in 1..Len(test_accuracies) :
                IsPrefix(test_accuracies[e], test_accuracies'[e])
    /\ IsPrefix(ref_accuracies, ref_accuracies') \/
          /\ Len(ref_accuracies') = Len(ref_accuracies)
          /\ \A e \in 1..Len(ref_accuracies) :
                IsPrefix(ref_accuracies[e], ref_accuracies'[e])
    /\ IsPrefix(soft_decisions, soft_decisions') \/
          /\ Len(soft_decisions') = Len(soft_decisions)
          /\ \A e \in 1..Len(soft_decisions) :
                IsPrefix(soft_decisions[e], soft_decisions'[e])
    /\ \A e \in DOMAIN trust_weights_round :
          /\ e \in DOMAIN trust_weights_round'
          /\ IsPrefix(trust_weights_round[e].rows, trust_weights_round'[e].rows)

(* C5 as stated: every history, the trust weights included, gets one slot  *)
(* per round and one append per client in each slot, append-only.          *)
C5_AsStated ==
    /\ [](ListHistoriesShape /\ WeightsEveryRound)
    /\ [][AppendOnlyStep]_vars

(* C5 amended: the soft-decision and accuracy histories get one slot per   *)
(* round and one append per client in client order; the trust-weight slot  *)
(* gets one append per client only in rounds e >= pretraining_rounds and   *)
(* none before; nothing written is ever removed or changed; the returned   *)
(* histories have global_epochs round entries.                             *)
C5_HistoriesAppendOnly ==
    /\ [](ListHistoriesShape /\ WeightsByPhase)
    /\ [][AppendOnlyStep]_vars

C5_Witness ==
    /\ pc = "returned"
    /\ global_epochs >= 2
    /\ pretraining_rounds >= 1
    /\ Len(soft_decisions) = global_epochs
    /\ \A e \in 1..global_epochs : Len(test_accuracies[e]) = NumClients

(* --------------------------- termination ------------------------------ *)
(* Rounds 0..global_epochs-1 were each run once and visited every client:  *)
(* one report per round in order, one evaluation of every client in every  *)
(* round, and no call in any other round.                                  *)
ExactlyGlobalEpochsRounds ==
    /\ Len(reports) = global_epochs
    /\ \A k \in 1..Len(reports) : reports[k].global_epoch = k - 1
    /\ \A e \in 0..(global_epochs - 1) : \A c \in ClientPos :
          /\ Len(CallsOf("infer_on_refdata", e, c)) = 1
          /\ Len(CallsOf("test", e, c)) = 2
    /\ \A i \in 1..Len(calls) :
          calls[i].ok /\ calls[i].epoch \in 0..(global_epochs - 1)

(* C6: once train() is entered it ends, by a raised client failure or by   *)
(* returning; it returns only when no call failed and exactly              *)
(* global_epochs rounds were run, each once and over every client.         *)
C6_Termination ==
    /\ (pc = "constructed") ~> (pc = "raised" \/ pc = "returned")
    /\ [](pc = "returned" => ExactlyGlobalEpochsRounds)
    /\ []((pc = "round_start" /\ MoreRounds) => result = Null)

C6_Witness ==
    /\ pc = "returned"
    /\ global_epochs >= 2
    /\ Len(reports) = global_epochs
    /\ \A i \in 1..Len(calls) : calls[i].ok

(* C7: a failed capability call is the last call ever made: the run is     *)
(* over with the exception, nothing is retried or continued, and train()   *)
(* hands back no histories.                                                *)
C7_FailurePropagates ==
    \A i \in 1..Len(calls) :
       ~calls[i].ok => /\ i = Len(calls)
                       /\ pc = "raised"
                       /\ result = Null

C7_Witness ==
    /\ pc = "raised"
    /\ Len(calls) >= 2
    /\ ~calls[Len(calls)].ok
    /\ calls[Len(calls)].epoch >= 1
    /\ calls[Len(calls)].client < NumClients
    /\ result = Null

(* C8: an identifier outside {acc, bacc} stops construction with the       *)
(* unknown-name error, so no round and no capability call ever runs; an    *)
(* identifier inside the set is bound to its own scoring function.         *)
C8_MetricResolved ==
    /\ metric_name \notin {"acc", "bacc"} =>
          /\ pc \in {"new", "ctor_error"}
          /\ calls = <<>>
          /\ reports = <<>>
          /\ RoundsStarted = 0 /\ soft_decisions = <<>>
          /\ result = Null
    /\ pc \notin {"new", "ctor_error"} =>
          /\ metric_name = "acc" => metric = "accuracy_score"
          /\ metric_name = "bacc" => metric = "balanced_accuracy_score"
    /\ pc = "ctor_error" => metric_name \notin {"acc", "bacc"}

C8_Witness ==
    /\ pc = "ctor_error"
    /\ metric_name = "unknown"
    /\ calls = <<>>

(* C9: the ref accuracy stored for client c in round e is the score of     *)
(* the labels and the argmax of the soft decision that c's inference call  *)
(* of round e returned, and that soft decision is the one stored for c in  *)
(* round e.                                                                *)
C9_RefAccuracyFresh ==
    \A e \in 1..Len(ref_accuracies) : \A c \in 1..Len(ref_accuracies[e]) :
       LET infs == CallsOf("infer_on_refdata", e - 1, c)
       IN  /\ Len(infs) = 1
           /\ infs[1].ok
           /\ ref_accuracies[e][c] =
                 ApplyMetric(metric, infs[1].ret.ref_y, ArgMax(infs[1].ret.soft_decision))
           /\ c <= Len(soft_decisions[e])
           /\ soft_decisions[e][c] = infs[1].ret.soft_decision

C9_Witness ==
    /\ pc = "returned"
    /\ global_epochs >= 2
    /\ \E c \in ClientPos :
          /\ ref_accuracies[1][c] # ref_accuracies[2][c]
          /\ soft_decisions[1][c] # soft_decisions[2][c]

(* C10: the round-mean test accuracy reported for round e times the        *)
(* number of clients is the sum of the test accuracies the clients         *)
(* returned in round e, which are the entries of test_accuracies[e];       *)
(* likewise for the ref accuracies.                                        *)
IsMeanOf(m, xs) ==
    /\ Len(xs) = NumClients
    /\ m[2] > 0
    /\ m[1] * NumClients * RatSum[xs][2] = RatSum[xs][1] * m[2]

C10_RoundMeans ==
    \A k \in 1..Len(reports) :
       LET e == reports[k].global_epoch
       IN  /\ test_accuracies[e + 1] = TestedIn(e, "test")
           /\ IsMeanOf(reports[k].global_test_accuracy, TestedIn(e, "test"))
           /\ IsMeanOf(reports[k].global_ref_accuracy, ref_accuracies[e + 1])

C10_Witness ==
    /\ pc = "returned"
    /\ \E k \in 1..Len(reports) :
          /\ reports[k].global_epoch >= 1
          /\ \E c \in ClientPos :
                test_accuracies[k][c] # reports[k].global_test_accuracy
          /\ \E c \in ClientPos :
                ref_accuracies[k][c] # reports[k].global_ref_accuracy

(* C12: on every client in every round, train is called at most           *)
(* num_local_epochs times and exactly that often once the client's         *)
(* evaluation has begun, and every one of those calls carries the target   *)
(* fixed at the phase gate: None in a local-only round, the target that    *)
(* the client's one target computation of the round returned otherwise.    *)
GateTarget(e, c) ==
    IF LocalOnly(e) THEN Null ELSE CallsOf(calc, e, c)[1].ret.target

C12_LocalEpochsShareTarget ==
    \A e \in 0..(RoundsStarted - 1) : \A c \in ClientPos :
       LET trains == CallsOf("train", e, c)
       IN  /\ Len(trains) <= num_local_epochs
           /\ Len(CallsOf("test", e, c)) >= 1 => Len(trains) = num_local_epochs
           /\ Len(trains) >= 1 =>
                 /\ LocalOnly(e) \/ Len(CallsOf(calc, e, c)) = 1
                 /\ \A k \in 1..Len(trains) : trains[k].arg = GateTarget(e, c)

C12_Witness ==
    /\ pc = "returned"
    /\ num_local_epochs >= 2
    /\ global_epochs > pretraining_rounds
    /\ pretraining_rounds >= 1
    /\ \E c \in ClientPos :
          /\ Len(CallsOf("train", global_epochs - 1, c)) = num_local_epochs
          /\ CallsOf("train", global_epochs - 1, c)[2].arg # Null
          /\ CallsOf("train", 0, c)[2].arg = Null

(* --------------------------- order of calls --------------------------- *)
(* The kind of a call, with the mode for a test call. *)
Step(r) == IF r.kind = "test" THEN <<"test", r.arg>> ELSE <<r.kind, "">>

(* The calls made on client c in round e, in call order. *)
VisitOf(e, c) ==
    LET Sel(r) == r.epoch = e /\ r.client = c
        got == SelectSeq(calls, Sel)
    IN  [k \in 1..Len(got) |-> Step(got[k])]

(* The calls one full visit of a client makes in round e. *)
FullVisit(e) ==
    (IF LocalOnly(e) THEN <<>> ELSE << <<calc, "">> >>)
    \o [k \in 1..num_local_epochs |-> <<"train", "">>]
    \o << <<"test", "train">>, <<"infer_on_refdata", "">>, <<"test", "test">> >>

(* C13: the calls made on a client in a round are, in this order, the      *)
(* target computation (distillation rounds only), the num_local_epochs     *)
(* train calls, test(train), the inference on the reference data and       *)
(* test(test); a client whose ref accuracy is stored has had exactly this  *)
(* sequence, in either phase.                                              *)
C13_VisitOrder ==
    \A e \in 0..(RoundsStarted - 1) : \A c \in ClientPos :
       /\ IsPrefix(VisitOf(e, c), FullVisit(e))
       /\ c <= Len(ref_accuracies[e + 1]) => VisitOf(e, c) = FullVisit(e)
       /\ e \in CompletedRounds => VisitOf(e, c) = FullVisit(e)

C13_Witness ==
    /\ pc = "returned"
    /\ pretraining_rounds >= 1
    /\ global_epochs > pretraining_rounds
    /\ num_local_epochs >= 2
    /\ \A c \in ClientPos :
          /\ Len(VisitOf(0, c)) = num_local_epochs + 3
          /\ Len(VisitOf(global_epochs - 1, c)) = num_local_epochs + 4

(* The positions in the call log where round e first reaches a client. *)
FirstCalls(e) ==
    {i \in 1..Len(calls) :
        /\ calls[i].epoch = e
        /\ \A j \in 1..(i - 1) :
              ~(calls[j].epoch = e /\ calls[j].client = calls[i].client)}

(* The clients round e has visited, in the order it reached them. *)
VisitOrder(e) ==
    LET S == FirstCalls(e)
    IN  [k \in 1..Cardinality(S) |->
            calls[CHOOSE i \in S : Cardinality({j \in S : j < i}) = k - 1].client]

(* C14: all calls of a round precede every call of the next round; within  *)
(* a round the calls on one client are consecutive (a round never comes    *)
(* back to a client it has left), so every call on a client precedes every *)
(* call on the client visited after it; and every                          *)
(* round visits the clients in the order round 0 visited them.             *)
C14_SequentialFixedOrder ==
    /\ \A i \in 1..(Len(calls) - 1) : calls[i].epoch <= calls[i + 1].epoch
    /\ \A i \in 1..(Len(calls) - 1) :
          (calls[i].epoch = calls[i + 1].epoch /\ calls[i].client # calls[i + 1].client) =>
             \A j \in 1..i :
                ~(calls[j].epoch = calls[i + 1].epoch /\ calls[j].client = calls[i + 1].client)
    /\ \A e \in 0..(RoundsStarted - 1) :
          /\ IsPrefix(VisitOrder(e), [k \in ClientPos |-> k])
          /\ e \in CompletedRounds =>
                VisitOrder(e) = IF 0 \in CompletedRounds THEN VisitOrder(0) ELSE <<>>

C14_Witness ==
    /\ pc = "returned"
    /\ global_epochs >= 3
    /\ VisitOrder(0) = [k \in ClientPos |-> k]
    /\ VisitOrder(1) = VisitOrder(0)
    /\ VisitOrder(2) = VisitOrder(0)

(* ------------------------------ deltas -------------------------------- *)
(* C15: the reported delta of the round-mean test accuracy, and of the     *)
(* round-mean ref accuracy, is zero in round 0 and in a round e >= 1 is    *)
(* the mean reported for round e minus the mean reported for round e - 1.  *)
C15_Deltas ==
    \A k \in 1..Len(reports) :
       IF reports[k].global_epoch = 0
       THEN /\ reports[k].test_delta = Zero
            /\ reports[k].ref_delta = Zero
       ELSE /\ k >= 2
            /\ reports[k - 1].global_epoch = reports[k].global_epoch - 1
            /\ reports[k].test_delta =
                  RatSub[reports[k].global_test_accuracy,
                         reports[k - 1].global_test_accuracy]
            /\ reports[k].ref_delta =
                  RatSub[reports[k].global_ref_accuracy,
                         reports[k - 1].global_ref_accuracy]

C15_Witness ==
    /\ pc = "returned"
    /\ Len(reports) >= 3
    /\ reports[1].global_test_accuracy # Zero
    /\ reports[1].test_delta = Zero
    /\ reports[3].test_delta # Zero
    /\ reports[3].ref_delta # Zero
    /\ reports[3].test_delta #
          RatSub[reports[3].global_test_accuracy, reports[1].global_test_accuracy]

(* ------------------------ prior-round collection ---------------------- *)
(* C16: in a distillation round e >= 1 every client is handed the same     *)
(* collection: one entry per client, entry c being the soft decision       *)
(* client c (the caller included) returned in round e - 1; it is the same  *)
(* for the first and the last client of the round, so it holds nothing     *)
(* produced in round e.                                                    *)
C16_SamePriorCollection ==
    \A i \in 1..Len(calls) :
       (calls[i].kind = calc /\ calls[i].epoch >= 1) =>
          /\ Len(calls[i].arg) = NumClients
          /\ \A c \in ClientPos :
                LET infs == CallsOf("infer_on_refdata", calls[i].epoch - 1, c)
                IN  /\ Len(infs) = 1
                    /\ calls[i].arg[c] = infs[1].ret.soft_decision
          /\ \A j \in 1..i :
                (calls[j].kind = calc /\ calls[j].epoch = calls[i].epoch) =>
                   calls[j].arg = calls[i].arg

C16_Witness ==
    /\ pc = "returned"
    /\ global_epochs >= 2
    /\ \A c \in ClientPos :
          /\ Len(CallsOf(calc, global_epochs - 1, c)) = 1
          /\ CallsOf(calc, global_epochs - 1, c)[1].arg = soft_decisions[global_epochs - 1]
    /\ soft_decisions[global_epochs][1] # soft_decisions[global_epochs - 1][1]

(* ------------------------ repeated train() calls ---------------------- *)
(* A step changes no slot of a list history but the newest one, the slot   *)
(* allocated by the round in progress.                                     *)
OnlyNewestSlot(h, hNext) ==
    \A j \in 1..Len(h) : (j <= Len(hNext) /\ hNext[j] # h[j]) => j = Len(h)

(* A step never takes weights away from a trust-weight entry. *)
WeightsKept ==
    \A e \in DOMAIN trust_weights_round :
       /\ e \in DOMAIN trust_weights_round'
       /\ IsPrefix(trust_weights_round[e].rows, trust_weights_round'[e].rows)

(* C17: over any sequence of train() calls on one Trainer, a round writes  *)
(* only into the slot allocated for it, no slot or trust-weight entry      *)
(* filled by an earlier call is appended to, reset or replaced, and the    *)
(* k-th round run reports the per-client values and means of the k-th      *)
(* allocated slot.                                                         *)
C17_RoundsWriteOwnSlot ==
    /\ [][/\ OnlyNewestSlot(soft_decisions, soft_decisions')
          /\ OnlyNewestSlot(train_accuracies, train_accuracies')
          /\ OnlyNewestSlot(test_accuracies, test_accuracies')
          /\ OnlyNewestSlot(ref_accuracies, ref_accuracies')
          /\ WeightsKept]_vars
    /\ [](\A k \in 1..Len(reports) :
             /\ reports[k].test_accuracy = test_accuracies[k]
             /\ reports[k].ref_accuracy = ref_accuracies[k]
             /\ IsMeanOf(reports[k].global_test_accuracy, test_accuracies[k])
             /\ IsMeanOf(reports[k].global_ref_accuracy, ref_accuracies[k]))

(* ------------------------- state after a failure ---------------------- *)
(* The trust weights the successful target computations of round e         *)
(* returned, in call order.                                                *)
WeightsIn(e) ==
    LET Sel(r) == r.kind = calc /\ r.epoch = e /\ r.ok
        got == SelectSeq(calls, Sel)
    IN  [j \in 1..Len(got) |-> got[j].ret.trust_weight]

(* The entries of a round that ran to its end are as its end left them:    *)
(* the per-client values of its report, the soft decisions its clients     *)
(* returned and its consolidated trust weights.                            *)
AsAtRoundEnd(k) ==
    /\ train_accuracies[k] = reports[k].train_accuracy
    /\ test_accuracies[k] = reports[k].test_accuracy
    /\ ref_accuracies[k] = reports[k].ref_accuracy
    /\ soft_decisions[k] = ProducedIn(k - 1)
    /\ Len(soft_decisions[k]) = NumClients
    /\ trust_weights_round[k - 1] =
          Consolidate([stacked |-> FALSE, rows |-> WeightsIn(k - 1)])

(* The slot of the failed round holds the values the successful calls of   *)
(* that round returned, and nothing else.                                  *)
OnlySuccessfulAppends(e) ==
    /\ train_accuracies[e + 1] = TestedIn(e, "train")
    /\ soft_decisions[e + 1] = ProducedIn(e)
    /\ test_accuracies[e + 1] = TestedIn(e, "test")
    /\ Len(ref_accuracies[e + 1]) = Len(TestedIn(e, "test"))
    /\ trust_weights_round[e] = [stacked |-> FALSE, rows |-> WeightsIn(e)]

(* C18: when a capability call fails in round e, the step that fails       *)
(* changes no history; the entries of the rounds before e are as they were *)
(* when those rounds completed, and the slot of round e holds only the     *)
(* values appended before the failure.                                     *)
C18_NoRollbackNoLateAppend ==
    /\ [][pc' = "raised" => UNCHANGED histories]_vars
    /\ [](pc = "raised" =>
             /\ Len(reports) = current_global_epoch
             /\ \A k \in 1..Len(reports) : AsAtRoundEnd(k)
             /\ OnlySuccessfulAppends(current_global_epoch))

C18_Witness ==
    /\ pc = "raised"
    /\ current_global_epoch >= 1
    /\ current_global_epoch >= pretraining_rounds
    /\ ~calls[Len(calls)].ok
    /\ calls[Len(calls)].client = NumClients
    /\ Len(train_accuracies[current_global_epoch + 1]) >= 1
    /\ Len(trust_weights_round[current_global_epoch].rows) >= 1

====
